---- MODULE Spec2Model ----
(***************************************************************************)
(* A model of ssc_tracker.py: the Firestore collection "vocabulary_master", *)
(* the record-answer operation update_score, the PDF import loop and the    *)
(* set-of-25 quiz page with its Streamlit session state.                    *)
(*                                                                          *)
(* Text is modelled as a sequence of one-character strings, so that split,  *)
(* strip, lower and the sort key are computed and not assumed.              *)
(***************************************************************************)
EXTENDS Integers, Sequences, FiniteSets, TLC

(***************************************************************************)
(* Bounds of the model.                                                     *)
(***************************************************************************)
\* record-answer calls started in one behaviour of the store-level specifications
MaxCalls == 3
\* option clicks of the quiz session in one behaviour
MaxAnswers == 2
\* words the uploads of the set-partition specification hold in all
MaxWords == 51

(***************************************************************************)
(* Characters and Python's str operations.                                  *)
(***************************************************************************)
UpperCase == <<"A","B","C","D","E","F","G","H","I","J","K","L","M",
               "N","O","P","Q","R","S","T","U","V","W","X","Y","Z">>
LowerCase == <<"a","b","c","d","e","f","g","h","i","j","k","l","m",
               "n","o","p","q","r","s","t","u","v","w","x","y","z">>
\* the characters of the model in code point order
Alphabet == <<"\n", " ", "(", ")", ",", "1", "2", "3">> \o UpperCase \o LowerCase

\* ord(c), up to the order
CharOrdOf == [c \in {Alphabet[i] : i \in 1..Len(Alphabet)} |->
                CHOOSE i \in 1..Len(Alphabet) : Alphabet[i] = c]
CharOrd(c) == CharOrdOf[c]

LowerOf == [c \in {UpperCase[i] : i \in 1..Len(UpperCase)} |->
                LowerCase[CHOOSE i \in 1..Len(UpperCase) : UpperCase[i] = c]]
\* str.lower() on one character
LowerChar(c) == IF c \in DOMAIN LowerOf THEN LowerOf[c] ELSE c

\* str.lower()
Lower(s) == [i \in 1..Len(s) |-> LowerChar(s[i])]

\* Python's < on str: lexicographic by code point, a proper prefix is smaller
RECURSIVE StrLess(_, _)
StrLess(a, b) ==
    IF b = <<>> THEN FALSE
    ELSE IF a = <<>> THEN TRUE
    ELSE IF a[1] # b[1] THEN CharOrd(a[1]) < CharOrd(b[1])
    ELSE StrLess(Tail(a), Tail(b))

IsSpace(c) == c \in {" ", "\n"}

RECURSIVE LStrip(_)
LStrip(s) == IF s # <<>> /\ IsSpace(s[1]) THEN LStrip(Tail(s)) ELSE s

RECURSIVE RStrip(_)
RStrip(s) ==
    IF s # <<>> /\ IsSpace(s[Len(s)]) THEN RStrip(SubSeq(s, 1, Len(s) - 1)) ELSE s

\* str.strip()
Strip(s) == RStrip(LStrip(s))

\* the index of the first sep in s, 0 when there is none
FirstIndex(s, sep) ==
    IF \E i \in 1..Len(s) : s[i] = sep
    THEN CHOOSE i \in 1..Len(s) : s[i] = sep /\ \A j \in 1..(i - 1) : s[j] # sep
    ELSE 0

\* str.split(sep) for a one-character sep: always at least one part
RECURSIVE Split(_, _)
Split(s, sep) ==
    LET i == FirstIndex(s, sep) IN
    IF i = 0 THEN <<s>>
    ELSE <<SubSeq(s, 1, i - 1)>> \o Split(SubSeq(s, i + 1, Len(s)), sep)

\* sep.join(parts)
RECURSIVE Join(_, _)
Join(parts, sep) ==
    IF parts = <<>> THEN <<>>
    ELSE IF Len(parts) = 1 THEN parts[1]
    ELSE parts[1] \o sep \o Join(Tail(parts), sep)

(***************************************************************************)
(* Literals of the program.                                                 *)
(***************************************************************************)
NoneOfTheAbove ==
    <<"N","o","n","e"," ","o","f"," ","t","h","e"," ","a","b","o","v","e">>
NoSynonymsProvided ==
    <<"N","o"," ","s","y","n","o","n","y","m","s"," ","p","r","o","v","i","d","e","d">>
NoSynonym == <<"N","o"," ","s","y","n","o","n","y","m">>
WordPOS == <<"W","o","r","d"," ","(","P","O","S",")">>
\* str(None)
NoneStr == <<"N","o","n","e">>
\* Python's None, which equals no text
PyNone == <<"None">>
\* a PDF table cell that pdfplumber returns as None
NoneCell == PyNone
MenuHome == "Home / Upload PDF"
MenuOWS == "OWS Quiz (Sets of 25)"
MenuSynonym == "Synonym Quiz (Sets of 25)"
Menus == {MenuHome, MenuOWS, MenuSynonym}
\* the one-character emoji of the status texts
CheckMark == "U+2705"
Hourglass == "U+23F3"
StatusAttempted == <<CheckMark, " ", "A","t","t","e","m","p","t","e","d">>
StatusPending == <<Hourglass, " ", "P","e","n","d","i","n","g">>
\* "Chunk into sets of 25"
SetSize == 25

(***************************************************************************)
(* The document store: db is the collection "vocabulary_master", its        *)
(* documents in the order of their ids, which is the order it streams them. *)
(***************************************************************************)
VARIABLES
    db,          \* the collection: a sequence of [id, data], ascending by id
    pc,          \* store level: each session's position in its running operation
    loc,         \* store level: each session's local variables
    issued,      \* history: record-answer calls started
    done,        \* history: record-answer calls completed on an existing entry
    doneCorrect, \* history: those of them whose flag was correct
    lastPdf,     \* history: the PDF of the import pass that ended last, if nothing ran since
    menu,        \* quiz session: the sidebar selectbox of line 67
    ss,          \* quiz session: st.session_state, [key present -> value]
    sel,         \* quiz session: the index the set selectbox of line 154 holds
    lastLabels,  \* quiz session: the options of the set selectbox at the last run, <<>> if not drawn
    view,        \* quiz session: what the last script run drew
    answers      \* history: option clicks so far

netVars == <<pc, loc, issued, done, doneCorrect, lastPdf>>
uiVars == <<menu, ss, sel, lastLabels, view, answers>>
vars == <<db, netVars, uiVars>>

\* the ids of the collection's documents
Ids(d) == {d[i].id : i \in 1..Len(d)}

\* doc_ref.get().exists
Exists(d, key) == \E i \in 1..Len(d) : d[i].id = key

IndexOf(d, key) == CHOOSE i \in 1..Len(d) : d[i].id = key

\* doc_ref.get().to_dict()
Doc(d, key) == d[IndexOf(d, key)].data

\* dict.get(field, default)
Get(data, field, default) == IF field \in DOMAIN data THEN data[field] ELSE default

\* doc_ref.set(doc): creates the document or overwrites it whole
DocSet(d, key, doc) ==
    IF Exists(d, key) THEN [d EXCEPT ![IndexOf(d, key)].data = doc]
    ELSE LET n == Cardinality({i \in 1..Len(d) : StrLess(d[i].id, key)})
         IN SubSeq(d, 1, n) \o <<[id |-> key, data |-> doc]>> \o SubSeq(d, n + 1, Len(d))

\* doc_ref.update(fields): writes the named fields of the stored document
DocUpdate(d, key, fields) ==
    [d EXCEPT ![IndexOf(d, key)].data =
        [f \in DOMAIN Doc(d, key) \cup DOMAIN fields |->
            IF f \in DOMAIN fields THEN fields[f] ELSE Doc(d, key)[f]]]

\* f"{quiz_type}_attempted"
AttemptedKey(quiz_type) ==
    IF quiz_type = "ows" THEN "ows_attempted" ELSE "syno_attempted"

\* a bug update_score could have: every answer counted as correct
UpdateFieldsAllCorrect(data, is_correct, quiz_type) ==
    [f \in {"total_attempts", "correct_attempts", AttemptedKey(quiz_type)} |->
        CASE f = "total_attempts" -> Get(data, "total_attempts", 0) + 1
          [] f = "correct_attempts" -> Get(data, "correct_attempts", 0) + 1
          [] OTHER -> TRUE]

\* a bug update_score could have: the attempt counted only when wrong
UpdateFieldsNoTotal(data, is_correct, quiz_type) ==
    [f \in {"total_attempts", "correct_attempts", AttemptedKey(quiz_type)} |->
        CASE f = "total_attempts" ->
                Get(data, "total_attempts", 0) + (IF is_correct THEN 0 ELSE 1)
          [] f = "correct_attempts" ->
                Get(data, "correct_attempts", 0) + (IF is_correct THEN 1 ELSE 0)
          [] OTHER -> TRUE]

\* a bug update_score could have: both attempted flags set
UpdateFieldsBothFlags(data, is_correct, quiz_type) ==
    [f \in {"total_attempts", "correct_attempts", "ows_attempted", "syno_attempted"} |->
        CASE f = "total_attempts" -> Get(data, "total_attempts", 0) + 1
          [] f = "correct_attempts" ->
                Get(data, "correct_attempts", 0) + (IF is_correct THEN 1 ELSE 0)
          [] OTHER -> TRUE]

\* update_score, lines 23-33: the fields written, computed from the snapshot read
UpdateFields(data, is_correct, quiz_type) ==
    [f \in {"total_attempts", "correct_attempts", AttemptedKey(quiz_type)} |->
        CASE f = "total_attempts" -> Get(data, "total_attempts", 0) + 1
          [] f = "correct_attempts" ->
                Get(data, "correct_attempts", 0) + (IF is_correct THEN 1 ELSE 0)
          [] OTHER -> TRUE]

\* update_score run without interruption (one session, no other writer)
update_score(d, word_text, is_correct, quiz_type) ==
    IF Exists(d, word_text)
    THEN DocUpdate(d, word_text, UpdateFields(Doc(d, word_text), is_correct, quiz_type))
    ELSE d

(***************************************************************************)
(* The import loop's row handling, lines 90-121.                            *)
(***************************************************************************)
\* str(cell)
Str(cell) == IF cell = NoneCell THEN NoneStr ELSE cell

\* "if not row or len(row) < 3: continue"
RowTooShort(row) == row = <<>> \/ Len(row) < 3

word_raw(row) == Strip(Str(row[2]))
meaning_raw(row) == Strip(Str(row[3]))

\* "if not word_raw or word_raw == 'Word (POS)': continue"
RowSkipped(row) ==
    RowTooShort(row) \/ word_raw(row) = <<>> \/ word_raw(row) = WordPOS

word_clean(row) == Strip(Split(word_raw(row), "(")[1])

synonyms_text(row) ==
    LET parts == Split(meaning_raw(row), "\n") IN
    IF Len(parts) >= 2 THEN Strip(parts[1]) ELSE NoSynonymsProvided

english_meaning_text(row) ==
    LET parts == Split(meaning_raw(row), "\n") IN
    IF Len(parts) >= 2 THEN Strip(Join(Tail(parts), <<" ">>))
    ELSE Strip(meaning_raw(row))

\* the document of lines 113-121
NewEntry(row) ==
    [f \in {"word_text", "english_meaning", "synonyms", "correct_attempts",
            "total_attempts", "ows_attempted", "syno_attempted"} |->
        CASE f = "word_text" -> word_clean(row)
          [] f = "english_meaning" -> english_meaning_text(row)
          [] f = "synonyms" -> synonyms_text(row)
          [] f \in {"correct_attempts", "total_attempts"} -> 0
          [] OTHER -> FALSE]

\* "for page in pdf.pages: table = page.extract_table(); if not table: continue;
\*  for row in table[1:]": the data rows in the order the loop visits them
RECURSIVE DataRows(_)
DataRows(pdf) ==
    IF pdf = <<>> THEN <<>>
    ELSE (IF pdf[1] = <<>> THEN <<>> ELSE Tail(pdf[1])) \o DataRows(Tail(pdf))

(***************************************************************************)
(* Inputs of the store-level specifications: table rows, PDFs, word keys.   *)
(***************************************************************************)
KeyAb == <<"a","b">>
KeyCd == <<"C","d">>

HeaderRow == << <<"N","o">>, WordPOS, <<"M">> >>
RowAb == << <<"1">>, <<"a","b"," ","(","n",")">>,
            <<"b","i","g",","," ","h","u","g","e","\n","v","e","r","y"," ","l","a","r","g","e">> >>
\* the same word under another tag and another meaning, no synonyms line
RowAbAgain == << <<"2">>, <<" ","a","b","(","v",")">>, <<"x">> >>
RowCd == << <<"3">>, <<"C","d"," ","(","a",")">>,
            <<"t","i","n","y","\n","v","e","r","y","\n","s","m","a","l","l">> >>
RowShort == << <<"1">>, <<"a","b">> >>
\* the text before the first "(" is empty
RowNoWord == << <<"2">>, <<"(","n",")">>, <<"m">> >>

PdfA == << <<HeaderRow, RowAb, RowCd>> >>
\* a repeated word, a page without a table, a repeated header and a short row
PdfB == << <<HeaderRow, RowAb, RowAbAgain>>, <<>>, <<HeaderRow, HeaderRow, RowShort, RowCd>> >>
PdfC == << <<HeaderRow, RowCd, RowNoWord, RowAb>> >>
Pdfs == {PdfA, PdfB, PdfC}
\* no PDF: one without pages
NoPdf == <<>>

\* the word the record-answer calls are for: absent until a PDF is imported
ScoreKeys == {KeyAb}
QuizTypes == {"ows", "syno"}
Sessions == {1, 2}

\* the collection without documents
EmptyDb == <<>>
\* a dict without keys
EmptyDict == [k \in {} |-> {}]

\* the local variables of a session that runs nothing
IdleLoc ==
    [word_text |-> <<>>, is_correct |-> FALSE, quiz_type |-> "ows", data |-> EmptyDict,
     pdf |-> NoPdf, rows |-> <<>>, added_count |-> 0, repeat |-> FALSE]

(***************************************************************************)
(* update_score as two steps: the read of line 20, the write of line 29.    *)
(***************************************************************************)
\* a bug the write could have: written over a snapshot taken at the write
ScoreFieldsAtomic(s) ==
    UpdateFields(Doc(db, loc[s].word_text), loc[s].is_correct, loc[s].quiz_type)

\* the fields session s writes: computed from the snapshot it read at line 20
ScoreFields(s) == UpdateFields(loc[s].data, loc[s].is_correct, loc[s].quiz_type)

\* a bug update_score could have: an absent document created by the call
ScoreReadUpsert(s, w, ic, qt) ==
    /\ pc[s] = "idle"
    /\ issued < MaxCalls
    /\ issued' = issued + 1
    /\ lastPdf' = NoPdf
    /\ IF Exists(db, w)
       THEN /\ pc' = [pc EXCEPT ![s] = "score_update"]
            /\ loc' = [loc EXCEPT ![s] =
                        [IdleLoc EXCEPT
                            !.word_text = w, !.is_correct = ic,
                            !.quiz_type = qt, !.data = Doc(db, w)]]
            /\ db' = db
       ELSE /\ pc' = pc
            /\ loc' = [loc EXCEPT ![s] = IdleLoc]
            /\ db' = DocSet(db, w, UpdateFields(EmptyDict, ic, qt))
    /\ UNCHANGED <<done, doneCorrect>>
    /\ UNCHANGED uiVars

\* lines 19-22: doc_ref.get(); an absent document ends the call
ScoreRead(s, w, ic, qt) ==
    /\ pc[s] = "idle"
    /\ issued < MaxCalls
    /\ issued' = issued + 1
    /\ lastPdf' = NoPdf
    /\ IF Exists(db, w)
       THEN /\ pc' = [pc EXCEPT ![s] = "score_update"]
            /\ loc' = [loc EXCEPT ![s] =
                        [IdleLoc EXCEPT
                            !.word_text = w, !.is_correct = ic,
                            !.quiz_type = qt, !.data = Doc(db, w)]]
       ELSE /\ pc' = pc
            /\ loc' = [loc EXCEPT ![s] = IdleLoc]
    /\ UNCHANGED <<db, done, doneCorrect>>
    /\ UNCHANGED uiVars

\* lines 23-33: doc_ref.update
ScoreUpdate(s) ==
    /\ pc[s] = "score_update"
    /\ db' = DocUpdate(db, loc[s].word_text, ScoreFields(s))
    /\ done' = [done EXCEPT ![loc[s].word_text] = @ + 1]
    /\ doneCorrect' = [doneCorrect EXCEPT ![loc[s].word_text] =
                          @ + (IF loc[s].is_correct THEN 1 ELSE 0)]
    /\ pc' = [pc EXCEPT ![s] = "idle"]
    /\ loc' = [loc EXCEPT ![s] = IdleLoc]
    /\ UNCHANGED <<issued, lastPdf>>
    /\ UNCHANGED uiVars

(***************************************************************************)
(* The import of lines 79-124, one store call per step.                     *)
(***************************************************************************)
\* line 79: "Extract & Add Words" pressed with pdf uploaded
ImportStart(s, pdf) ==
    /\ pc[s] = "idle"
    /\ pc' = [pc EXCEPT ![s] = "import_row"]
    /\ loc' = [loc EXCEPT ![s] =
                [IdleLoc EXCEPT
                    !.pdf = pdf, !.rows = DataRows(pdf), !.repeat = (lastPdf = pdf)]]
    /\ UNCHANGED <<db, issued, done, doneCorrect, lastPdf>>
    /\ UNCHANGED uiVars

\* a bug the import could have: no existence check before set
RowNeedsSetAlways(d, row) == ~RowSkipped(row)

\* lines 91-112: the row reaches doc_ref.set
RowNeedsSet(d, row) == ~RowSkipped(row) /\ ~Exists(d, word_clean(row))

\* lines 90-112 for the next row: skipped, present already, or absent
ImportRow(s) ==
    /\ pc[s] = "import_row"
    /\ loc[s].rows # <<>>
    /\ LET row == Head(loc[s].rows) IN
       /\ RowSkipped(row) \/ word_clean(row) # <<>>
       /\ IF RowNeedsSet(db, row)
          THEN /\ pc' = [pc EXCEPT ![s] = "import_set"]
               /\ loc' = loc
          ELSE /\ pc' = pc
               /\ loc' = [loc EXCEPT ![s].rows = Tail(@)]
    /\ UNCHANGED <<db, issued, done, doneCorrect, lastPdf>>
    /\ UNCHANGED uiVars

\* lines 111-112 with an empty document id: the store rejects the request,
\* nothing catches the error and the run ends without a success message
ImportFail(s) ==
    /\ pc[s] = "import_row"
    /\ loc[s].rows # <<>>
    /\ LET row == Head(loc[s].rows) IN
       ~RowSkipped(row) /\ word_clean(row) = <<>>
    /\ pc' = [pc EXCEPT ![s] = "idle"]
    /\ lastPdf' = loc[s].pdf
    /\ loc' = [loc EXCEPT ![s] = IdleLoc]
    /\ UNCHANGED <<db, issued, done, doneCorrect>>
    /\ UNCHANGED uiVars

\* lines 113-122: doc_ref.set and the count
ImportSet(s) ==
    /\ pc[s] = "import_set"
    /\ LET row == Head(loc[s].rows) IN
       db' = DocSet(db, word_clean(row), NewEntry(row))
    /\ pc' = [pc EXCEPT ![s] = "import_row"]
    /\ loc' = [loc EXCEPT ![s].rows = Tail(@), ![s].added_count = @ + 1]
    /\ UNCHANGED <<issued, done, doneCorrect, lastPdf>>
    /\ UNCHANGED uiVars

\* line 124: the loop is over, added_count is reported
ImportDone(s) ==
    /\ pc[s] = "import_row"
    /\ loc[s].rows = <<>>
    /\ pc' = [pc EXCEPT ![s] = "idle"]
    /\ lastPdf' = loc[s].pdf
    /\ loc' = [loc EXCEPT ![s] = IdleLoc]
    /\ UNCHANGED <<db, issued, done, doneCorrect>>
    /\ UNCHANGED uiVars

StoreInit ==
    /\ db = EmptyDb
    /\ pc = [s \in Sessions |-> "idle"]
    /\ loc = [s \in Sessions |-> IdleLoc]
    /\ issued = 0
    /\ done = [w \in ScoreKeys |-> 0]
    /\ doneCorrect = [w \in ScoreKeys |-> 0]
    /\ lastPdf = NoPdf
    /\ menu = MenuHome
    /\ ss = EmptyDict
    /\ sel = 1
    /\ lastLabels = <<>>
    /\ view = "home"
    /\ answers = 0

StoreStep(s) ==
    \/ \E w \in ScoreKeys, ic \in BOOLEAN, qt \in QuizTypes : ScoreRead(s, w, ic, qt)
    \/ ScoreUpdate(s)
    \/ \E pdf \in Pdfs : ImportStart(s, pdf)
    \/ ImportRow(s)
    \/ ImportFail(s)
    \/ ImportSet(s)
    \/ ImportDone(s)

\* two sessions on the shared store, every interleaving of their store calls
NextStore == \E s \in Sessions : StoreStep(s)
SpecStore == StoreInit /\ [][NextStore]_vars

\* one session, no other writer
NextSolo == StoreStep(1)
SpecSolo == StoreInit /\ [][NextSolo]_vars

(***************************************************************************)
(* The quiz page, lines 129-209, and render_quiz_options, lines 36-61.      *)
(***************************************************************************)
Min(a, b) == IF a < b THEN a ELSE b

\* the elements of a sequence
Range(seq) == {seq[i] : i \in 1..Len(seq)}

\* a bug fetch_all_words could have: sorted by code point, capitals first
WordKeyCaseSensitive(w) == w["word_text"]

\* the sort key of line 16: x['word_text'].lower()
WordKey(w) == Lower(w["word_text"])

\* seq with x put after the last element whose key is not greater: one step of
\* a stable sort
RECURSIVE InsertWord(_, _)
InsertWord(seq, x) ==
    IF seq = <<>> THEN <<x>>
    ELSE IF StrLess(WordKey(x), WordKey(seq[Len(seq)]))
         THEN InsertWord(SubSeq(seq, 1, Len(seq) - 1), x) \o <<seq[Len(seq)]>>
         ELSE seq \o <<x>>

\* sorted(words, key=...): stable
RECURSIVE SortedWords(_)
SortedWords(words) ==
    IF words = <<>> THEN <<>>
    ELSE InsertWord(SortedWords(SubSeq(words, 1, Len(words) - 1)), words[Len(words)])

\* fetch_all_words, lines 12-16
fetch_all_words(d) == SortedWords([i \in 1..Len(d) |-> d[i].data])

\* line 139: [all_words[i:i + 25] for i in range(0, len(all_words), 25)]
Chunks(all_words) ==
    [i \in 1..((Len(all_words) + SetSize - 1) \div SetSize) |->
        SubSeq(all_words, SetSize * (i - 1) + 1, Min(SetSize * i, Len(all_words)))]

Digits == <<"0","1","2","3","4","5","6","7","8","9">>
\* str(n) of an f-string, for 0 <= n < 100
IntStr(n) ==
    IF n < 10 THEN <<Digits[n + 1]>>
    ELSE <<Digits[(n \div 10) + 1], Digits[(n % 10) + 1]>>

\* line 130: "ows" if "OWS" in menu else "syno"
quiz_type(m) == IF m = MenuOWS THEN "ows" ELSE "syno"

\* a bug the status could have: one attempted entry is enough
is_attempted_any(s, qt) == \E i \in 1..Len(s) : Get(s[i], AttemptedKey(qt), FALSE)

\* line 148
is_attempted(s, qt) == \A i \in 1..Len(s) : Get(s[i], AttemptedKey(qt), FALSE)

\* lines 144-151: f"Set {i+1}: {start_word} to {end_word} [{status}]"
Label(n, s, qt) ==
    <<"S","e","t"," ">> \o IntStr(n) \o <<":"," ">> \o s[1]["word_text"]
        \o <<" ","t","o"," ">> \o s[Len(s)]["word_text"] \o <<" ","[">>
        \o (IF is_attempted(s, qt) THEN StatusAttempted ELSE StatusPending) \o <<"]">>

\* list(set_options.keys()) for labels that differ pairwise ("Set n" is in each)
Labels(sets, qt) == [i \in 1..Len(sets) |-> Label(i, sets[i], qt)]

\* set_options[label]: the last set stored under the label
SetOfLabel(sets, labels, label) ==
    sets[CHOOSE i \in 1..Len(sets) :
            labels[i] = label /\ \A j \in (i + 1)..Len(sets) : labels[j] # label]

\* lines 179, 186: [s.strip() for s in synonyms.split(',') if s.strip()]
RECURSIVE NonEmptyStripped(_)
NonEmptyStripped(parts) ==
    IF parts = <<>> THEN <<>>
    ELSE (IF Strip(parts[1]) # <<>> THEN <<Strip(parts[1])>> ELSE <<>>)
            \o NonEmptyStripped(Tail(parts))

syn_list(w) == NonEmptyStripped(Split(Get(w, "synonyms", <<>>), ","))

\* lines 173, 180: the values correct_ans can take, whatever random.choice picks
CorrectAnswers(q_data, qt) ==
    IF qt = "ows" THEN {q_data["word_text"]}
    ELSE IF syn_list(q_data) # <<>> /\ syn_list(q_data)[1] # NoSynonymsProvided
         THEN Range(syn_list(q_data))
         ELSE {Get(q_data, "english_meaning", NoSynonym)}

\* the outcomes of the random source (random.choice, random.sample,
\* random.shuffle) that a script run can meet
Draws == {0, 1}

\* random.choice(seq): one element; draw r picks the element r places after the first
random_choice(seq, r) == seq[(r % Len(seq)) + 1]

\* a bug the derivation could have: the literal taken for a synonym
correct_ans_any_item(q_data, qt, r) ==
    IF qt = "ows" THEN q_data["word_text"]
    ELSE IF syn_list(q_data) # <<>>
         THEN random_choice(syn_list(q_data), r)
         ELSE Get(q_data, "english_meaning", NoSynonym)

\* lines 173, 180: correct_ans under draw r
correct_ans_of(q_data, qt, r) ==
    IF qt = "ows" THEN q_data["word_text"]
    ELSE IF syn_list(q_data) # <<>> /\ syn_list(q_data)[1] # NoSynonymsProvided
         THEN random_choice(syn_list(q_data), r)
         ELSE Get(q_data, "english_meaning", NoSynonym)

\* lines 174, 183-187: the decoy pool
RECURSIVE Pool(_, _, _)
Pool(all_words, q_data, qt) ==
    IF all_words = <<>> THEN <<>>
    ELSE (IF all_words[1]["word_text"] = q_data["word_text"] THEN <<>>
          ELSE IF qt = "ows" THEN <<all_words[1]["word_text"]>>
          ELSE syn_list(all_words[1]))
            \o Pool(Tail(all_words), q_data, qt)

\* random.sample(pool, k): the elements at k positions of the pool, none twice;
\* draw r picks the k positions that follow position r, round the pool
random_sample(pool, k, r) == [j \in 1..k |-> pool[((r + j - 1) % Len(pool)) + 1]]

\* a bug the generation could have: no padding
PadNothing(decoys) == decoys

\* line 192: while len(decoys) < 3: decoys.append("None of the above")
Pad(decoys) == decoys \o [j \in 1..(3 - Len(decoys)) |-> NoneOfTheAbove]

\* random.shuffle(options): the same elements in some order; draw r turns the
\* list r places
random_shuffle(options, r) ==
    [j \in 1..Len(options) |-> options[((r + j - 1) % Len(options)) + 1]]

\* lines 191-195: the option list of one generation under draw r
GeneratedOptions(pool, correct_ans, r) ==
    random_shuffle(Pad(random_sample(pool, Min(Len(pool), 3), r)) \o <<correct_ans>>, r)

\* st.session_state[key] = value
SetField(st, key, value) ==
    [x \in DOMAIN st \cup {key} |-> IF x = key THEN value ELSE st[x]]

\* a bug the initialization could have: the index kept when the set changes
InitSetKeepIndex(st, selected) ==
    IF "active_set_label" \notin DOMAIN st
    THEN SetField(SetField(SetField(st, "active_set_label", selected),
                           "current_index", 0), "answered", FALSE)
    ELSE IF st["active_set_label"] # selected
         THEN SetField(st, "active_set_label", selected)
         ELSE st

\* lines 158-161: quiz initialization
InitSet(st, selected) ==
    IF "active_set_label" \notin DOMAIN st \/ st["active_set_label"] # selected
    THEN SetField(SetField(SetField(st, "active_set_label", selected),
                           "current_index", 0), "answered", FALSE)
    ELSE st

\* line 190: the cached options are for another index, or there are none
NeedsOptions(st) ==
    \/ "options_generated_for" \notin DOMAIN st
    \/ st["options_generated_for"] # st["current_index"]

\* lines 197-199
CacheOptions(st, options, correct_ans) ==
    SetField(SetField(SetField(st, "current_options", options),
                      "correct_ans", correct_ans),
             "options_generated_for", st["current_index"])

\* line 154: the index the selectbox returns. Its options unchanged since the last
\* run, it holds the user's choice; with other options it is another widget to
\* the framework, which then starts from the default index, or keeps the position
SelectboxIndex(labels, labs, k) ==
    IF labels = labs THEN {k} ELSE {1} \cup ({k} \cap (1..Len(labels)))

\* what one script run leaves: the session state, what it drew, the set selectbox
Outcome(st, v, labels, k) == [ss |-> st, view |-> v, lastLabels |-> labels, sel |-> k]

\* lines 155-209 once the selectbox returned index k
RunSelected(st, qt, all_words, sets, labels, k) ==
    LET selected == labels[k]
        current_set == SetOfLabel(sets, labels, selected)
        st1 == InitSet(st, selected)
    IN  IF st1["current_index"] < Len(current_set)
        THEN LET q_data == current_set[st1["current_index"] + 1]
                 st2s == IF NeedsOptions(st1)
                         THEN {CacheOptions(st1,
                                    GeneratedOptions(Pool(all_words, q_data, qt),
                                                     correct_ans_of(q_data, qt, r), r),
                                    correct_ans_of(q_data, qt, r)) :
                                 r \in Draws}
                         ELSE {st1}
             IN {Outcome(st2,
                         IF Get(st2, "answered", FALSE) THEN "feedback" ELSE "question",
                         labels, k) : st2 \in st2s}
        ELSE {Outcome(st1, "complete", labels, k)}

\* one run of the script on a quiz page, lines 129-209: the outcomes it can have
QuizRun(m, d, st, labs, k) ==
    LET all_words == fetch_all_words(d) IN
    IF all_words = <<>> THEN {Outcome(st, "empty", <<>>, 1)}
    ELSE LET sets == Chunks(all_words)
             labels == Labels(sets, quiz_type(m))
         IN UNION {RunSelected(st, quiz_type(m), all_words, sets, labels, k2) :
                      k2 \in SelectboxIndex(labels, labs, k)}

\* a bug the upload page could have: the quiz keys of the session state dropped
ScriptRunForgets(m, d, st, labs, k) ==
    IF m = MenuHome THEN {Outcome(EmptyDict, "home", <<>>, 1)}
    ELSE QuizRun(m, d, st, labs, k)

\* one run of the script, lines 67-209
ScriptRun(m, d, st, labs, k) ==
    IF m = MenuHome THEN {Outcome(st, "home", <<>>, 1)}
    ELSE QuizRun(m, d, st, labs, k)

\* the set the selectbox holds and the entry the page is at
CurrentSet == Chunks(fetch_all_words(db))[sel]
CurrentEntry == CurrentSet[ss["current_index"] + 1]

(***************************************************************************)
(* The quiz session: one user, one browser tab, one handler per step.       *)
(***************************************************************************)
\* the 26 words of the quiz PDF: a, B, c, d, ..., y and Z
WordOf(i) == IF i \in {2, 26} THEN <<UpperCase[i]>> ELSE <<LowerCase[i]>>
\* word i with its tag, its synonyms "pX, qX" and its meaning "mX"; the last
\* word has no synonyms line
QuizRow(i) ==
    <<IntStr(i), WordOf(i) \o <<" ","(","n",")">>,
      IF i = 26 THEN <<"m", LowerCase[i]>>
      ELSE <<"p", LowerCase[i], ",", " ", "q", LowerCase[i], "\n", "m", LowerCase[i]>> >>
\* two pages, the words in descending order
PdfBig ==
    << <<HeaderRow>> \o [i \in 1..13 |-> QuizRow(27 - i)],
       <<HeaderRow>> \o [i \in 1..13 |-> QuizRow(14 - i)] >>
QuizPdfs == {PdfBig}

\* lines 86-122 run by one session without interruption: the store it leaves
RECURSIVE ImportRows(_, _)
ImportRows(rows, d) ==
    IF rows = <<>> THEN d
    ELSE IF RowSkipped(rows[1]) THEN ImportRows(Tail(rows), d)
    ELSE IF word_clean(rows[1]) = <<>> THEN d
    ELSE IF RowNeedsSet(d, rows[1])
         THEN ImportRows(Tail(rows), DocSet(d, word_clean(rows[1]), NewEntry(rows[1])))
         ELSE ImportRows(Tail(rows), d)

\* the session takes what the script run left
Apply(o) ==
    /\ ss' = o.ss
    /\ view' = o.view
    /\ lastLabels' = o.lastLabels
    /\ sel' = o.sel

\* line 67: another page chosen in the sidebar
ChangeMenu(m) ==
    /\ m # menu
    /\ menu' = m
    /\ \E o \in ScriptRun(m, db, ss, lastLabels, sel) : Apply(o)
    /\ UNCHANGED <<db, answers, netVars>>

\* line 79: "Extract & Add Words" on the upload page
ExtractAndAdd(pdf) ==
    /\ view = "home"
    /\ db' = ImportRows(DataRows(pdf), db)
    /\ UNCHANGED <<menu, ss, sel, lastLabels, view, answers, netVars>>

\* line 154: another set chosen
SelectSet(k) ==
    /\ view \in {"question", "feedback", "complete"}
    /\ k \in 1..Len(lastLabels)
    /\ k # sel
    /\ \E o \in ScriptRun(menu, db, ss, lastLabels, k) : Apply(o)
    /\ UNCHANGED <<db, menu, answers, netVars>>

\* line 56: st.button(opt, key=opt) raises on a key used before in the run, which
\* ends the run: button i is drawn when the options up to it differ pairwise
OptionRendered(options, i) ==
    \A j, k \in 1..i : j < k => options[j] # options[k]

\* lines 56-61: option i clicked; the score is recorded, then st.rerun()
ClickOption(i) ==
    /\ view = "question"
    /\ answers < MaxAnswers
    /\ i \in 1..Len(ss["current_options"])
    /\ OptionRendered(ss["current_options"], i)
    /\ LET opt == ss["current_options"][i]
           st == SetField(SetField(ss, "answered", TRUE), "selected_option", opt)
           is_correct == (opt = ss["correct_ans"])
           d == update_score(db, CurrentEntry["word_text"], is_correct, quiz_type(menu))
       IN /\ db' = d
          /\ \E o \in ScriptRun(menu, d, st, lastLabels, sel) : Apply(o)
    /\ answers' = answers + 1
    /\ UNCHANGED <<menu, netVars>>

\* lines 49-53: "Next Question", then st.rerun()
ClickNext ==
    /\ view = "feedback"
    /\ LET st == SetField(SetField(SetField(ss, "current_index", ss["current_index"] + 1),
                                   "answered", FALSE), "selected_option", PyNone)
       IN \E o \in ScriptRun(menu, db, st, lastLabels, sel) : Apply(o)
    /\ UNCHANGED <<db, menu, answers, netVars>>

\* lines 206-209: "Reattempt this Set", then st.rerun()
ClickReattempt ==
    /\ view = "complete"
    /\ LET st == SetField(SetField(ss, "current_index", 0), "answered", FALSE)
       IN \E o \in ScriptRun(menu, db, st, lastLabels, sel) : Apply(o)
    /\ UNCHANGED <<db, menu, answers, netVars>>

\* the process has started, the store is empty, the upload page is shown
QuizInit == StoreInit

NextQuiz ==
    \/ \E m \in Menus : ChangeMenu(m)
    \/ \E pdf \in QuizPdfs : ExtractAndAdd(pdf)
    \/ \E k \in 1..2 : SelectSet(k)
    \/ \E i \in 1..4 : ClickOption(i)
    \/ ClickNext
    \/ ClickReattempt
SpecQuiz == QuizInit /\ [][NextQuiz]_vars

(***************************************************************************)
(* Claims about the store.                                                  *)
(***************************************************************************)
\* session s takes the write step of update_score
IsScoreWrite(s) == pc[s] = "score_update" /\ pc'[s] = "idle"
\* session s takes the doc_ref.set step of the import
IsImportSet(s) == pc[s] = "import_set" /\ pc'[s] = "import_row"
\* the key the import of session s is at
ImportKey(s) == word_clean(Head(loc[s].rows))

\* C1: with one session and no other writer, an entry created with counters (0,0)
\* has, after N record-answer calls on it, total_attempts = N and correct_attempts
\* = the number of those calls whose flag was correct, which is between 0 and N.
C1_CountersCountCalls ==
    \A w \in ScoreKeys :
        Exists(db, w) =>
            /\ Doc(db, w)["total_attempts"] = done[w]
            /\ Doc(db, w)["correct_attempts"] = doneCorrect[w]
            /\ 0 <= doneCorrect[w] /\ doneCorrect[w] <= done[w]

\* three calls on one entry, one of them correct, all completed
C1_Witness ==
    /\ Exists(db, KeyAb)
    /\ pc[1] = "idle"
    /\ done[KeyAb] = 3 /\ doneCorrect[KeyAb] = 1
    /\ Doc(db, KeyAb)["total_attempts"] = 3

\* C2: in every interleaving of the read and write steps of record-answer calls of
\* two sessions on one word, no write step of record-answer decreases the entry's
\* total_attempts or correct_attempts.
C2_CountersNeverDecrease ==
    [][\A s \in Sessions :
          IsScoreWrite(s) =>
              LET w == loc[s].word_text IN
              /\ Doc(db', w)["total_attempts"] >= Doc(db, w)["total_attempts"]
              /\ Doc(db', w)["correct_attempts"] >= Doc(db, w)["correct_attempts"]]_vars

\* C3: in every reachable state of the shared store, under every interleaving of
\* the sessions' record-answer reads and writes and of their imports, every entry
\* has 0 <= correct_attempts <= total_attempts.
C3_CorrectAtMostTotal ==
    \A w \in Ids(db) :
        /\ 0 <= Doc(db, w)["correct_attempts"]
        /\ Doc(db, w)["correct_attempts"] <= Doc(db, w)["total_attempts"]

\* an entry with all its answers correct, while another session holds a snapshot
\* of it that is out of date
C3_Witness ==
    /\ Exists(db, KeyAb)
    /\ Doc(db, KeyAb)["total_attempts"] >= 1
    /\ Doc(db, KeyAb)["correct_attempts"] = Doc(db, KeyAb)["total_attempts"]
    /\ \E s \in Sessions :
          /\ pc[s] = "score_update" /\ loc[s].word_text = KeyAb
          /\ loc[s].data["total_attempts"] < Doc(db, KeyAb)["total_attempts"]

\* C4: record-answer is a read followed by a write with no lock and no compare and
\* swap: the write installs the total_attempts of the snapshot read plus one,
\* whatever the store holds by then, so that of two sessions that read the same
\* entry before either wrote, each completes and the total ends one higher only.
C4_LastWriteWins ==
    [][\A s \in Sessions :
          IsScoreWrite(s) =>
              Doc(db', loc[s].word_text)["total_attempts"] = loc[s].data["total_attempts"] + 1]_vars

\* session 1 has completed its call after session 2 read the same entry: the
\* write session 2 is about to make leaves total_attempts at 1 after two calls
C4_Witness ==
    /\ pc[1] = "idle" /\ pc[2] = "score_update"
    /\ loc[2].word_text = KeyAb
    /\ issued = 2 /\ done[KeyAb] = 1
    /\ loc[2].data["total_attempts"] = 0
    /\ Doc(db, KeyAb)["total_attempts"] = 1

\* C5: with one session and no other writer, a pass over the rows of the PDF of
\* the pass just ended changes no entry and no field and keeps the count it
\* reports at 0; and in any pass a word is created, and counted, only when it is
\* absent from the store, so once for all the rows that hold it.
C5_ImportIdempotent ==
    [][/\ IsImportSet(1) =>
            /\ ~Exists(db, ImportKey(1))
            /\ Ids(db') = Ids(db) \cup {ImportKey(1)}
            /\ loc'[1].added_count = loc[1].added_count + 1
       /\ (pc[1] \in {"import_row", "import_set"} /\ ~IsImportSet(1)) =>
            /\ db' = db
            /\ pc'[1] # "idle" => loc'[1].added_count = loc[1].added_count
       /\ (pc[1] \in {"import_row", "import_set"} /\ loc[1].repeat) =>
            /\ db' = db
            /\ loc[1].added_count = 0
            /\ loc'[1].added_count = 0]_vars

\* the end of a second pass in succession over a PDF that holds a word twice
C5_Witness ==
    /\ pc[1] = "import_row" /\ loc[1].rows = <<>>
    /\ loc[1].pdf = PdfB /\ loc[1].repeat
    /\ loc[1].added_count = 0
    /\ Ids(db) = {KeyAb, KeyCd}

\* C6: in every interleaving of one session's import (existence check, then set)
\* with another session's import or record-answer on the same word, no doc_ref.set
\* of an import changes the total_attempts, correct_attempts, ows_attempted or
\* syno_attempted of an entry that exists.
C6_ImportNeverOverwrites ==
    [][\A s \in Sessions :
          (IsImportSet(s) /\ Exists(db, ImportKey(s))) =>
              \A f \in {"total_attempts", "correct_attempts",
                        "ows_attempted", "syno_attempted"} :
                  Doc(db', ImportKey(s))[f] = Doc(db, ImportKey(s))[f]]_vars

(***************************************************************************)
(* Claims about the quiz session.                                           *)
(***************************************************************************)
\* the step is a click on an option (lines 56-61 and the rerun)
IsOptionClick == answers' = answers + 1
\* the step is a click on "Next Question" (lines 49-53 and the rerun)
IsNextClick ==
    /\ view = "feedback"
    /\ menu' = menu /\ sel' = sel /\ db' = db /\ answers' = answers
    /\ ss' # ss
\* the page is at the last index of the set the selectbox holds
AtLastIndex == ss["current_index"] = Len(CurrentSet) - 1
\* a question is drawn, answered or not
QuestionRendered == view \in {"question", "feedback"}

\* C7: whenever a question is rendered, the cached correct answer is a correct
\* answer of the entry at the current index of the selected set under the quiz
\* type of the page (OWS: its word_text; Synonym: one of its synonyms, or its
\* english_meaning on fallback), and it is one of the options shown.
C7_CachedAnswerMatchesQuestion ==
    QuestionRendered =>
        /\ ss["correct_ans"] \in CorrectAnswers(CurrentEntry, quiz_type(menu))
        /\ ss["correct_ans"] \in Range(ss["current_options"])

\* C8: a click on an option at the last index of the set leaves the page at that
\* index of that set with the feedback shown, and the click on Next that follows
\* leads to the completion state of that set, current_index = size of the set;
\* on every pass, the one that answers the last entry not yet attempted included.
C8_LastAnswerThenNextCompletes ==
    [][/\ (IsOptionClick /\ AtLastIndex) =>
              /\ view' = "feedback"
              /\ sel' = sel
              /\ ss'["current_index"] = ss["current_index"]
       /\ (IsNextClick /\ AtLastIndex) =>
              /\ view' = "complete"
              /\ ss'["current_index"] = Len(CurrentSet)
              /\ ss'["active_set_label"] = ss["active_set_label"]]_vars

\* C9: a click on an option leaves current_index and the active set as they were
\* and the session answered, the feedback of that question shown; current_index
\* goes back to 0 by the choice of another set, of another page, or by the
\* reattempt, never by a click on an option.
C9_OptionClickKeepsQuestion ==
    [][IsOptionClick =>
          /\ ss'["current_index"] = ss["current_index"]
          /\ ss'["active_set_label"] = ss["active_set_label"]
          /\ ss'["answered"] = TRUE
          /\ ss'["selected_option"] \in Range(ss["current_options"])
          /\ view' = "feedback"]_vars

\* C10: a script run that finds no active set, or an active set other than the
\* selected one, leaves current_index = 0, answered = false and the selected set
\* active, and draws the first question unanswered; and on every quiz page drawn
\* the active set is the selected one.
C10_SetChangeResets ==
    [][(/\ view' \in {"question", "feedback", "complete"}
        /\ \/ "active_set_label" \notin DOMAIN ss
           \/ ss["active_set_label"] # lastLabels'[sel']) =>
            /\ ss'["active_set_label"] = lastLabels'[sel']
            /\ ss'["current_index"] = 0
            /\ ss'["answered"] = FALSE
            /\ view' = "question"]_vars

\* the second set chosen after a question of the first set was answered and
\* passed: the page is at its first question, unanswered
C10_Witness ==
    /\ view = "question"
    /\ sel = 2
    /\ answers = 1
    /\ ss["active_set_label"] = lastLabels[2]
    /\ ss["current_index"] = 0
    /\ ss["answered"] = FALSE
    /\ ss["selected_option"] = PyNone
    /\ ss["options_generated_for"] = 0

(***************************************************************************)
(* The store filled word by word, for the partition into sets.              *)
(***************************************************************************)
\* word i of the uploads: a, B, c, ..., y, Z, then Aa, Ba, ..., Za, Ab, ...
WordN(i) ==
    IF i <= 26 THEN WordOf(i)
    ELSE <<UpperCase[((i - 1) % 26) + 1], LowerCase[(i - 1) \div 26]>>
\* a PDF of one page with the row of word i, meaning only
OneRowPdf(i) ==
    << <<HeaderRow, <<IntStr(i), WordN(i) \o <<" ","(","n",")">>, <<"m">> >> >> >>

\* line 79 with the PDF of word i, a word next to those uploaded from the low end
\* or from the high end of the list
AddWord(i) ==
    /\ ~Exists(db, WordN(i))
    /\ \/ \A j \in 1..(i - 1) : Exists(db, WordN(j))
       \/ \A j \in (i + 1)..MaxWords : Exists(db, WordN(j))
    /\ ExtractAndAdd(OneRowPdf(i))

NextSets == \E i \in 1..MaxWords : AddWord(i)
SpecSets == QuizInit /\ [][NextSets]_vars

\* ceil(n / 25)
CeilDiv25(n) == (n + 24) \div 25

\* C11: a store of n >= 1 entries gives ceil(n/25) sets that are the consecutive
\* slices of the entries sorted by lower-cased word_text: every set but the last
\* has 25 entries, the last has 1 to 25, every entry is in exactly one set, and
\* the label of set k is "Set k: first to last [status]".
C11_SetsPartitionSortedEntries ==
    LET all_words == fetch_all_words(db)
        sets == Chunks(all_words)
        n == Len(db)
    IN n >= 1 =>
        /\ Len(all_words) = n
        /\ {all_words[i] : i \in 1..n} = {db[i].data : i \in 1..n}
        /\ \A i \in 1..(n - 1) :
              ~StrLess(Lower(all_words[i + 1]["word_text"]), Lower(all_words[i]["word_text"]))
        /\ Len(sets) = CeilDiv25(n)
        /\ \A k \in 1..(Len(sets) - 1) : Len(sets[k]) = 25
        /\ Len(sets[Len(sets)]) = n - 25 * (Len(sets) - 1)
        /\ Len(sets[Len(sets)]) \in 1..25
        /\ \A k \in 1..Len(sets) : \A j \in 1..Len(sets[k]) :
              sets[k][j] = all_words[25 * (k - 1) + j]
        /\ \A qt \in QuizTypes : \A k \in 1..Len(sets) :
              \E status \in {StatusAttempted, StatusPending} :
                  Labels(sets, qt)[k] =
                      <<"S","e","t"," ">> \o IntStr(k) \o <<":"," ">>
                        \o sets[k][1]["word_text"] \o <<" ","t","o"," ">>
                        \o sets[k][Len(sets[k])]["word_text"]
                        \o <<" ","[">> \o status \o <<"]">>

\* 30 entries: two sets, the second of the entries at indices 25 to 29, with
\* words of both cases on both sides of the cut
C11_Witness ==
    /\ Len(db) = 30
    /\ Len(Chunks(fetch_all_words(db))) = 2
    /\ Len(Chunks(fetch_all_words(db))[2]) = 5
    /\ Exists(db, WordN(2)) /\ Exists(db, WordN(27))

(***************************************************************************)
(* More claims about the quiz page.                                         *)
(***************************************************************************)
\* the label ends with "[status]"
HasStatus(label, status) ==
    /\ Len(label) > Len(status) + 1
    /\ label[Len(label)] = "]"
    /\ SubSeq(label, Len(label) - Len(status), Len(label) - 1) = status
    /\ label[Len(label) - Len(status) - 1] = "["
\* a quiz page is drawn
QuizPage == view \in {"question", "feedback", "complete"}

\* C12: on a quiz page of type T the label of a set says Attempted if and only if
\* every entry of the set has T_attempted present and true in the store, and says
\* Pending otherwise.
C12_StatusIffAllAttempted ==
    QuizPage =>
        \A sets \in {Chunks(fetch_all_words(db))} :
        LET flag == AttemptedKey(quiz_type(menu))
        IN /\ Len(lastLabels) = Len(sets)
           /\ \A k \in 1..Len(sets) :
                LET every == \A i \in 1..Len(sets[k]) :
                                /\ flag \in DOMAIN sets[k][i]
                                /\ sets[k][i][flag] = TRUE
                IN /\ HasStatus(lastLabels[k], StatusAttempted) <=> every
                   /\ HasStatus(lastLabels[k], StatusPending) <=> ~every

\* the Synonym page with the second set attempted and the first set pending though
\* one of its entries is attempted
C12_Witness ==
    /\ QuizPage
    /\ menu = MenuSynonym
    /\ HasStatus(lastLabels[2], StatusAttempted)
    /\ HasStatus(lastLabels[1], StatusPending)
    /\ \E i \in 1..Len(db) :
          /\ db[i].data["syno_attempted"]
          /\ db[i].data["word_text"] # WordOf(26)

(***************************************************************************)
(* More claims about the store.                                             *)
(***************************************************************************)
\* the step starts a record-answer call for a word that has no entry
IsScoreCallOnAbsent ==
    /\ issued' = issued + 1
    /\ \A w \in ScoreKeys : ~Exists(db, w)

\* C13: a record-answer call for a word key without an entry leaves the store as
\* it is, no entry created and no field of another entry changed, and returns to
\* its caller: the session is idle again with no write pending and no error.
C13_AbsentKeyIsNoOp ==
    [][IsScoreCallOnAbsent =>
          /\ db' = db
          /\ pc' = pc
          /\ \A s \in Sessions : pc'[s] # "score_update"
          /\ done' = done /\ doneCorrect' = doneCorrect]_vars

\* the store holds another entry only, every session is idle and the operation
\* that ended last is a record-answer call: one for the absent word
C13_Witness ==
    /\ Ids(db) = {KeyCd}
    /\ \A s \in Sessions : pc[s] = "idle"
    /\ lastPdf = NoPdf
    /\ issued = 1
    /\ done[KeyAb] = 0

(***************************************************************************)
(* The quiz session on small stores: one to four words, words that share a  *)
(* synonym, a word without synonyms.                                        *)
(***************************************************************************)
\* "ef" shares a synonym with "ab" and one with "Cd"
RowEf == << <<"4">>, <<"e","f"," ","(","n",")">>,
            <<"b","i","g",","," ","t","i","n","y","\n","m","i","x","e","d">> >>
\* "gh" has a meaning and no synonyms line
RowGh == << <<"5">>, <<"g","h"," ","(","n",")">>, <<"p","l","a","i","n">> >>
PdfOne == << <<HeaderRow, RowAb>> >>
PdfShare == << <<HeaderRow, RowEf, RowGh>> >>
SmallPdfs == {PdfOne, PdfA, PdfShare}

NextSmall ==
    \/ \E m \in Menus : ChangeMenu(m)
    \/ \E pdf \in SmallPdfs : ExtractAndAdd(pdf)
    \/ \E i \in 1..4 : ClickOption(i)
    \/ ClickNext
    \/ ClickReattempt
SpecSmall == QuizInit /\ [][NextSmall]_vars

\* the step generates options: the cache is filled, or filled for another index
IsGeneration ==
    /\ "options_generated_for" \in DOMAIN ss'
    /\ \/ "options_generated_for" \notin DOMAIN ss
       \/ ss'["options_generated_for"] # ss["options_generated_for"]
\* how many times x is in seq
Count(seq, x) == Cardinality({i \in 1..Len(seq) : seq[i] = x})

\* C14: every option list just generated has 4 elements: the correct answer, the
\* elements at min(|pool|, 3) distinct positions of the decoy pool, and
\* 3 - min(|pool|, 3) times "None of the above"; and a list is generated whatever
\* the size of the pool, 0 included.
C14_GeneratedOptionsShape ==
    [][IsGeneration =>
          \A all_words \in {fetch_all_words(db')} :
          \A pool \in {Pool(all_words,
                            Chunks(all_words)[sel'][ss'["current_index"] + 1],
                            quiz_type(menu'))} :
          LET options == ss'["current_options"]
              correct == ss'["correct_ans"]
              k == IF Len(pool) < 3 THEN Len(pool) ELSE 3
          IN /\ Len(options) = 4
             /\ view' = "question"
             /\ \E P \in SUBSET (1..Len(pool)) :
                   /\ Cardinality(P) = k
                   /\ \A x \in Range(options) \cup Range(pool) \cup {correct, NoneOfTheAbove} :
                         Count(options, x) =
                             Cardinality({p \in P : pool[p] = x})
                               + (IF x = NoneOfTheAbove THEN 3 - k ELSE 0)
                               + (IF x = correct THEN 1 ELSE 0)]_vars

\* the one word of the store asked for: the pool is empty and the list is the
\* correct answer and three times the padding
C14_Witness ==
    /\ Len(db) = 1
    /\ view = "question"
    /\ Len(ss["current_options"]) = 4
    /\ Count(ss["current_options"], NoneOfTheAbove) = 3
    /\ Count(ss["current_options"], ss["correct_ans"]) = 1

\* the keys of the session state the quiz page reads
QuizKeys ==
    {"active_set_label", "current_index", "answered",
     "current_options", "correct_ans", "options_generated_for"}

\* C15: the step from a quiz page to the upload page leaves the session state as
\* it is, and the step from the upload page to a quiz page whose selected set is
\* the active one leaves current_index, answered, the active set and the cached
\* options as they are: the state is initialised only when absent or when the
\* selected set is another one.
C15_AwayAndBackKeepsSession ==
    [][/\ (menu # MenuHome /\ menu' = MenuHome) => ss' = ss
       /\ (/\ menu = MenuHome /\ menu' # MenuHome
           /\ db' = db
           /\ "active_set_label" \in DOMAIN ss
           /\ lastLabels' # <<>>
           /\ lastLabels'[sel'] = ss["active_set_label"]) =>
              /\ DOMAIN ss' = DOMAIN ss
              /\ \A key \in QuizKeys \cap DOMAIN ss : ss'[key] = ss[key]]_vars

\* on the upload page, come from the second question of the first set, answered
C15_Witness ==
    /\ menu = MenuHome /\ view = "home"
    /\ Len(db) > SetSize
    /\ QuizKeys \subseteq DOMAIN ss
    /\ ss["active_set_label"] \in Range(Labels(Chunks(fetch_all_words(db)), "ows"))
    /\ ss["current_index"] = 1
    /\ ss["answered"] = TRUE
    /\ ss["options_generated_for"] = 1

\* C16: on the Synonym page the correct answer generated for an entry whose
\* synonyms field is "No synonyms provided" or empty is the entry's
\* english_meaning and not the literal; for an entry with a list of synonyms it
\* is one of the trimmed non-empty items of the list.
C16_SynonymAnswerFallback ==
    [][(IsGeneration /\ menu' = MenuSynonym) =>
          \A q_data \in {Chunks(fetch_all_words(db'))[sel'][ss'["current_index"] + 1]} :
          \A items \in {NonEmptyStripped(Split(q_data["synonyms"], ","))} :
          LET correct == ss'["correct_ans"]
              synonyms == q_data["synonyms"]
          IN /\ synonyms \in {NoSynonymsProvided, <<>>} =>
                    /\ correct = q_data["english_meaning"]
                    /\ correct # NoSynonymsProvided
             /\ (synonyms \notin {NoSynonymsProvided, <<>>} /\ items # <<>>) =>
                    \E i \in 1..Len(items) : correct = items[i]]_vars

\* the Synonym page asks for the word without synonyms: the answer is its meaning
C16_Witness ==
    /\ view = "question"
    /\ menu = MenuSynonym
    /\ CurrentEntry["synonyms"] = NoSynonymsProvided
    /\ ss["options_generated_for"] = ss["current_index"]
    /\ ss["correct_ans"] = CurrentEntry["english_meaning"]
    /\ ss["correct_ans"] = <<"p","l","a","i","n">>

\* C17: every entry stored has a non-empty document key and word_text, and every
\* row the import loop comes to is either skipped or yields a non-empty word, a
\* row whose second cell starts with "(" included.
C17_RowSkippedOrNonEmptyWord ==
    /\ \A key \in Ids(db) : key # <<>> /\ Doc(db, key)["word_text"] # <<>>
    /\ \A s \in Sessions :
          (pc[s] = "import_row" /\ loc[s].rows # <<>>) =>
              \/ RowSkipped(Head(loc[s].rows))
              \/ word_clean(Head(loc[s].rows)) # <<>>

\* C18: a question is shown answered, with the Next button that passes it, only
\* when an answer to it has been recorded under the quiz type of the page shown:
\* the entry at the current index of the selected set has that type's attempted
\* flag set, across page switches too.
C18_AnsweredMeansRecorded ==
    view = "feedback" =>
        Get(CurrentEntry, AttemptedKey(quiz_type(menu)), FALSE) = TRUE

\* C19: the write of a record-answer of quiz type T on an entry changes no field
\* of it but total_attempts, correct_attempts and T_attempted, and no other
\* entry; T_attempted is true afterwards, the answer correct or not.
C19_ScoreWriteFrame ==
    [][\A s \in Sessions :
          IsScoreWrite(s) =>
              LET w == loc[s].word_text
                  flag == AttemptedKey(loc[s].quiz_type)
              IN /\ Ids(db') = Ids(db)
                 /\ \A key \in Ids(db) \ {w} : Doc(db', key) = Doc(db, key)
                 /\ DOMAIN Doc(db', w) = DOMAIN Doc(db, w)
                 /\ \A f \in DOMAIN Doc(db, w) \ {"total_attempts", "correct_attempts", flag} :
                       Doc(db', w)[f] = Doc(db, w)[f]
                 /\ Doc(db', w)[flag] = TRUE]_vars

\* a wrong synonym answer is about to be written on an entry that has its OWS
\* flag set and its synonym flag not, with another entry in the store
C19_Witness ==
    \E s \in Sessions :
        /\ pc[s] = "score_update"
        /\ loc[s].quiz_type = "syno" /\ ~loc[s].is_correct
        /\ loc[s].word_text = KeyAb
        /\ Doc(db, KeyAb)["ows_attempted"] /\ ~Doc(db, KeyAb)["syno_attempted"]
        /\ Exists(db, KeyCd)

\* C20: the 4 options of a question drawn differ pairwise, each being the key of
\* its button, and exactly one of them is the correct answer; for stores of fewer
\* than 4 words and for words that share a synonym too.
C20_OptionsDistinct ==
    view = "question" =>
        LET options == ss["current_options"] IN
        /\ Len(options) = 4
        /\ \A i, j \in 1..Len(options) : i # j => options[i] # options[j]
        /\ Count(options, ss["correct_ans"]) = 1

====
